---- MODULE Spec2Model ----
(***************************************************************************)
(* PCG-XSH-RS-64/32 (MCG) generator of src/lib.rs.                         *)
(*                                                                         *)
(* A u64 is a sequence of 8 bytes, least significant byte first, and a u32 *)
(* a sequence of 4 bytes, so that every operation keeps its machine width: *)
(* the wrapping multiplication, the shifts and the xor are computed byte   *)
(* by byte, exactly modulo 2^64.                                           *)
(***************************************************************************)
EXTENDS Integers, Sequences, FiniteSets, TLC

VARIABLES gens, last, nops, reg, start, visited, steps

vars == <<gens, last, nops, reg, start, visited, steps>>

(***************************************************************************)
(* Bounds of the model.                                                    *)
(***************************************************************************)
MaxOps == 3        \* calls made, constructions included
MaxGens == 2       \* generators alive at once
MaxSkip == 2       \* |n| of skip(n)
MaxFill == 12      \* length of the buffer given to fill_bytes
PeriodBits == 6    \* width w of the register followed around its orbit

(***************************************************************************)
(* Machine words.                                                          *)
(***************************************************************************)
RECURSIVE Pow2(_)
Pow2(n) == IF n = 0 THEN 1 ELSE 2 * Pow2(n - 1)

\* the byte at position i of word w, 0 outside the word
ByteAt(w, i) == IF i >= 1 /\ i <= Len(w) THEN w[i] ELSE 0

\* a u64 written as its 16 hexadecimal digits, most significant first
Hex64(d) == [i \in 1..8 |-> 16 * d[17 - 2 * i] + d[18 - 2 * i]]

Zero64 == [i \in 1..8 |-> 0]
One64 == [i \in 1..8 |-> IF i = 1 THEN 1 ELSE 0]
MaxU64 == [i \in 1..8 |-> 255]

\* the value of a word known to be below 2^24
ToNat(w) == ByteAt(w, 1) + 256 * ByteAt(w, 2) + 65536 * ByteAt(w, 3)

\* x as u32: the low four bytes
AsU32(w) == [i \in 1..4 |-> w[i]]

\* x as u64: zero extension
AsU64(w) == [i \in 1..8 |-> ByteAt(w, i)]

\* u64 >> r, 0 <= r < 64
Shr64(w, r) ==
    LET q == r \div 8
        b == r % 8
    IN  [i \in 1..8 |-> (ByteAt(w, i + q) \div Pow2(b))
                        + (ByteAt(w, i + q + 1) % Pow2(b)) * Pow2(8 - b)]

\* u64 << r, 0 <= r < 64
Shl64(w, r) ==
    LET q == r \div 8
        b == r % 8
    IN  [i \in 1..8 |-> (ByteAt(w, i - q) % Pow2(8 - b)) * Pow2(b)
                        + (ByteAt(w, i - q - 1) \div Pow2(8 - b))]

RECURSIVE Xor8(_, _, _)
Xor8(x, y, k) ==
    IF k = 0 THEN 0
    ELSE ((x + y) % 2) + 2 * Xor8(x \div 2, y \div 2, k - 1)

\* u64 ^ u64
Xor64(a, b) == [i \in 1..8 |-> Xor8(a[i], b[i], 8)]

\* the element of a singleton set
The(S) == CHOOSE v \in S : TRUE

\* column k of the long multiplication of a by b, bytes as digits
RECURSIVE MulCol(_, _, _, _)
MulCol(a, b, k, i) ==
    IF i > k THEN 0 ELSE a[i + 1] * b[k - i + 1] + MulCol(a, b, k, i + 1)

\* the carry out of the k lowest columns c
RECURSIVE MulCarry(_, _)
MulCarry(c, k) ==
    IF k = 0 THEN 0 ELSE (c[k] + MulCarry(c, k - 1)) \div 256

\* Wrapping(a) * Wrapping(b): the low 64 bits of the product
WrappingMul(a, b) ==
    The({ [k \in 1..8 |-> (c[k] + MulCarry(c, k - 1)) % 256] :
            c \in {[k \in 1..8 |-> MulCol(a, b, k - 1, 0)]} })

(***************************************************************************)
(* Constants of the generator.                                             *)
(***************************************************************************)
MULTIPLIER == Hex64(<<1,0,0,0, 0,0,0,0, 0,0,0,0, 0,0,0,3>>)
INVERSE_off_by_one == Hex64(<<1,10,10,10, 10,10,10,10, 10,10,10,10, 10,10,10,10>>)
INVERSE == Hex64(<<1,10,10,10, 10,10,10,10, 10,10,10,10, 10,10,10,11>>)
BYTE_LEN == 8

(***************************************************************************)
(* Seeding.                                                                *)
(***************************************************************************)
seed_from_u64_no_guard(seed) == seed
seed_from_u64(seed) == IF seed = Zero64 THEN One64 ELSE seed

RECURSIVE arr_loop_big_endian(_, _, _)
arr_loop_big_endian(arr, i, seed) ==
    IF i >= BYTE_LEN THEN seed
    ELSE The({ arr_loop_big_endian(arr, i + 1, x) :
                 x \in {Xor64(seed, Shl64(AsU64(<<arr[i + 1]>>),
                                          8 * (BYTE_LEN - 1 - i)))} })
RECURSIVE arr_loop(_, _, _)
arr_loop(arr, i, seed) ==
    IF i >= BYTE_LEN THEN seed
    ELSE The({ arr_loop(arr, i + 1, x) :
                 x \in {Xor64(seed, Shl64(AsU64(<<arr[i + 1]>>), 8 * i))} })

arr_to_u64(arr) == arr_loop(arr, 0, Zero64)

from_seed(arr) == seed_from_u64(arr_to_u64(arr))

(***************************************************************************)
(* Output.  Every operation maps a register to the register it leaves and  *)
(* the value it returns.  An intermediate value is bound once, as the      *)
(* element of a singleton set, and The picks the result.                   *)
(***************************************************************************)
\* the amount of the variable shift
ShiftOf(state) == 22 + ToNat(Shr64(state, 61))

permute_wide_shift(state) ==
    The({ AsU32(Shr64(x, 22 + ToNat(Shr64(state, 60)))) :
            x \in {Xor64(state, Shr64(state, 22))} })
permute(state) ==
    The({ AsU32(Shr64(x, ShiftOf(state))) :
            x \in {Xor64(state, Shr64(state, 22))} })

next_u32(state) ==
    The({ [state |-> s, out |-> permute(s)] :
            s \in {WrappingMul(state, MULTIPLIER)} })

next_u64_low_first(state) ==
    The({ The({ [state |-> b.state,
                 out |-> Xor64(Shl64(AsU64(b.out), 32), AsU64(a.out))] :
                  b \in {next_u32(a.state)} }) :
            a \in {next_u32(state)} })
next_u64(state) ==
    The({ The({ [state |-> b.state,
                 out |-> Xor64(Shl64(AsU64(a.out), 32), AsU64(b.out))] :
                  b \in {next_u32(a.state)} }) :
            a \in {next_u32(state)} })

(***************************************************************************)
(* fill_bytes hands the buffer to rand_core's fill_bytes_via_next: whole   *)
(* 8-byte chunks come from next_u64, a rest of 5..7 bytes from one more    *)
(* next_u64 and a rest of 1..4 bytes from one next_u32, each written in    *)
(* little-endian order.                                                    *)
(***************************************************************************)
RECURSIVE fill_bytes_u32_chunks(_, _)
fill_bytes_u32_chunks(state, n) ==
    IF n <= 0 THEN [state |-> state, out |-> <<>>]
    ELSE The({ The({ [state |-> r.state,
                      out |-> SubSeq(c.out, 1, IF n < 4 THEN n ELSE 4) \o r.out] :
                       r \in {fill_bytes_u32_chunks(c.state, n - 4)} }) :
                 c \in {next_u32(state)} })
RECURSIVE fill_bytes(_, _)
fill_bytes(state, n) ==
    IF n >= 8 THEN
        The({ The({ [state |-> r.state, out |-> c.out \o r.out] :
                      r \in {fill_bytes(c.state, n - 8)} }) :
                c \in {next_u64(state)} })
    ELSE IF n > 4 THEN
        The({ [state |-> c.state, out |-> SubSeq(c.out, 1, n)] :
                c \in {next_u64(state)} })
    ELSE IF n > 0 THEN
        The({ [state |-> c.state, out |-> SubSeq(c.out, 1, n)] :
                c \in {next_u32(state)} })
    ELSE [state |-> state, out |-> <<>>]

try_fill_bytes(state, n) ==
    The({ [state |-> r.state, out |-> r.out, res |-> "Ok"] :
            r \in {fill_bytes(state, n)} })

(***************************************************************************)
(* skip.                                                                   *)
(***************************************************************************)
\* for _ in lo..hi { state *= m }
RECURSIVE for_range_from_one(_, _, _, _)
for_range_from_one(state, m, lo, hi) ==
    IF lo + 1 >= hi THEN state
    ELSE The({ for_range_from_one(s, m, lo + 1, hi) :
                 s \in {WrappingMul(state, m)} })
RECURSIVE for_range(_, _, _, _)
for_range(state, m, lo, hi) ==
    IF lo >= hi THEN state
    ELSE The({ for_range(s, m, lo + 1, hi) : s \in {WrappingMul(state, m)} })

skip_inclusive(state, n) ==
    IF n = 0 THEN state
    ELSE IF n > 0 THEN for_range(state, MULTIPLIER, 0, n + 1)
    ELSE for_range(state, INVERSE, n, 0)
skip(state, n) ==
    IF n = 0 THEN state
    ELSE IF n > 0 THEN for_range(state, MULTIPLIER, 0, n)
    ELSE for_range(state, INVERSE, n, 0)

(***************************************************************************)
(* new_stream.                                                             *)
(***************************************************************************)
new_stream_from_u32(state) ==
    The({ [state |-> r.state, out |-> AsU64(r.out),
           child |-> seed_from_u64(AsU64(r.out))] :
            r \in {next_u32(state)} })
new_stream(state) ==
    The({ [state |-> r.state, out |-> r.out, child |-> seed_from_u64(r.out)] :
            r \in {next_u64(state)} })

(***************************************************************************)
(* The program: a family of generators, each one register, and the calls   *)
(* made on them.  last records the latest call: its name, the generator it *)
(* acted on, that generator's register (or the seed) before the call, the  *)
(* argument, the value returned and the generator created.                 *)
(***************************************************************************)
SeedValues ==
    { Zero64, MaxU64, Hex64(<<8,0,0,0, 0,0,0,0, 0,0,0,0, 0,0,0,0>>) }

SeedArrays ==
    { <<239, 205, 171, 137, 103, 69, 35, 1>>,
      <<0, 0, 0, 0, 0, 0, 0, 0>> }

\* buffer lengths: the multiples of 4, and one that leaves a rest
FillLens == {n \in 0..MaxFill : n % 4 = 0} \cup {7}

NoCall ==
    [op |-> "none", g |-> 0, pre |-> <<>>, n |-> 0, out |-> <<>>, child |-> 0]

Call(op, g, pre, n, out, child) ==
    [op |-> op, g |-> g, pre |-> pre, n |-> n, out |-> out, child |-> child]

Idle == /\ reg = 0 /\ start = 0 /\ visited = {} /\ steps = 0

Init ==
    /\ gens = <<>>
    /\ last = NoCall
    /\ nops = 0
    /\ Idle

Budget == nops < MaxOps /\ nops' = nops + 1 /\ UNCHANGED <<reg, start, visited, steps>>

SeedFromU64 ==
    \E s \in SeedValues :
        /\ Budget
        /\ Len(gens) < MaxGens
        /\ gens' = Append(gens, seed_from_u64(s))
        /\ last' = Call("seed_from_u64", Len(gens) + 1, s, 0, <<>>, Len(gens) + 1)

FromSeed ==
    \E a \in SeedArrays :
        /\ Budget
        /\ Len(gens) < MaxGens
        /\ gens' = Append(gens, from_seed(a))
        /\ last' = Call("from_seed", Len(gens) + 1, a, 0, <<>>, Len(gens) + 1)

Clone ==
    \E g \in 1..Len(gens) :
        /\ Budget
        /\ Len(gens) < MaxGens
        /\ gens' = Append(gens, gens[g])
        /\ last' = Call("clone", g, gens[g], 0, <<>>, Len(gens) + 1)

NextU32 ==
    /\ Budget
    /\ \E g \in 1..Len(gens) :
        \E r \in {next_u32(gens[g])} :
            /\ gens' = [gens EXCEPT ![g] = r.state]
            /\ last' = Call("next_u32", g, gens[g], 0, r.out, 0)

NextU64 ==
    /\ Budget
    /\ \E g \in 1..Len(gens) :
        \E r \in {next_u64(gens[g])} :
            /\ gens' = [gens EXCEPT ![g] = r.state]
            /\ last' = Call("next_u64", g, gens[g], 0, r.out, 0)

FillBytes ==
    /\ Budget
    /\ \E g \in 1..Len(gens), n \in FillLens :
        \E r \in {fill_bytes(gens[g], n)} :
            /\ gens' = [gens EXCEPT ![g] = r.state]
            /\ last' = Call("fill_bytes", g, gens[g], n, r.out, 0)

TryFillBytes ==
    /\ Budget
    /\ \E g \in 1..Len(gens), n \in FillLens :
        \E r \in {try_fill_bytes(gens[g], n)} :
            /\ gens' = [gens EXCEPT ![g] = r.state]
            /\ last' = Call("try_fill_bytes", g, gens[g], n, <<r.res, r.out>>, 0)

Skip ==
    \E g \in 1..Len(gens), n \in (0 - MaxSkip)..MaxSkip :
        /\ Budget
        /\ gens' = [gens EXCEPT ![g] = skip(gens[g], n)]
        /\ last' = Call("skip", g, gens[g], n, <<>>, 0)

NewStream ==
    /\ Budget
    /\ Len(gens) < MaxGens
    /\ \E g \in 1..Len(gens) :
        \E r \in {new_stream(gens[g])} :
            /\ gens' = Append([gens EXCEPT ![g] = r.state], r.child)
            /\ last' = Call("new_stream", g, gens[g], 0, r.out, Len(gens) + 1)

Next ==
    \/ SeedFromU64
    \/ FromSeed
    \/ Clone
    \/ NextU32
    \/ NextU64
    \/ FillBytes
    \/ TryFillBytes
    \/ Skip
    \/ NewStream

Spec == Init /\ [][Next]_vars

(***************************************************************************)
(* The orbit of the state update.  The low w bits of state * MULTIPLIER    *)
(* depend on the low w bits of state and of MULTIPLIER only, so the update *)
(* is followed on a register of w = PeriodBits bits until the register     *)
(* comes back to a value it has held.                                      *)
(***************************************************************************)
Modulus == Pow2(PeriodBits)

MultiplierLow == MULTIPLIER[1] % Modulus

update_plus_four(r) == (r * ((MultiplierLow + 4) % Modulus)) % Modulus
update(r) == (r * MultiplierLow) % Modulus

Returned == steps >= Cardinality(visited)

InitOrbit ==
    /\ gens = <<>>
    /\ last = NoCall
    /\ nops = 0
    /\ start \in 1..(Modulus - 1)
    /\ reg = start
    /\ visited = {start}
    /\ steps = 0

Update ==
    /\ ~Returned
    /\ reg' = update(reg)
    /\ visited' = visited \cup {reg'}
    /\ steps' = steps + 1
    /\ UNCHANGED <<gens, last, nops, start>>

NextOrbit == Update

SpecOrbit == InitOrbit /\ [][NextOrbit]_vars

(***************************************************************************)
(* Reference computations used to state the properties.                    *)
(***************************************************************************)
RECURSIVE AddCarry(_, _, _)
AddCarry(a, b, k) ==
    IF k = 0 THEN 0 ELSE (a[k] + b[k] + AddCarry(a, b, k - 1)) \div 256

\* a + b modulo 2^64
Add64(a, b) == [k \in 1..8 |-> (a[k] + b[k] + AddCarry(a, b, k - 1)) % 256]

\* s * 0x1000000000000003 modulo 2^64, as (s << 60) + s + s + s
TimesMultiplier(s) ==
    The({ Add64(Shl64(s, 60), Add64(s, d)) : d \in {Add64(s, s)} })

\* bit j of a word, 0 beyond its width
Bit(w, j) == (ByteAt(w, (j \div 8) + 1) \div Pow2(j % 8)) % 2

\* the low 32 bits of (s XOR (s >> 22)) >> sh, bit by bit
PermuteBits(s, sh) ==
    [i \in 1..4 |->
        LET j == 8 * (i - 1) + sh
            X(k) == (Bit(s, j + k) + Bit(s, j + k + 22)) % 2
        IN  X(0) + 2 * X(1) + 4 * X(2) + 8 * X(3)
            + 16 * X(4) + 32 * X(5) + 64 * X(6) + 128 * X(7)]

\* the register after n calls of next_u32
RECURSIVE StepsAfter(_, _)
StepsAfter(state, n) ==
    IF n <= 0 THEN state
    ELSE The({ StepsAfter(r.state, n - 1) : r \in {next_u32(state)} })

\* the values returned by k successive calls of next_u32
RECURSIVE Outputs(_, _)
Outputs(state, k) ==
    IF k <= 0 THEN <<>>
    ELSE The({ <<r.out>> \o Outputs(r.state, k - 1) : r \in {next_u32(state)} })

\* the k-th of k successive next_u32 outputs
KthOutput(state, k) == The({ o[k] : o \in {Outputs(state, k)} })

\* b^n modulo 2^64 by repeated squaring
RECURSIVE Power(_, _)
Power(b, n) ==
    IF n = 0 THEN One64
    ELSE The({ IF n % 2 = 0 THEN h ELSE WrappingMul(b, h) :
                 h \in {Power(WrappingMul(b, b), n \div 2)} })

\* the buffer of n bytes (n a multiple of 4) made of the 32-bit outputs o:
\* the two outputs of a complete 8-byte chunk trade places, the output of a
\* last 4-byte chunk stays
ChunkedBytes(o, n) ==
    [i \in 1..n |->
        LET c == (i - 1) \div 4
            w == IF c % 2 = 1 THEN c - 1
                 ELSE IF c + 1 < n \div 4 THEN c + 1
                 ELSE c
        IN  o[w + 1][((i - 1) % 4) + 1]]

\* the buffer of n bytes (n a multiple of 4) made of the 32-bit outputs o in
\* call order
CallOrderBytes(o, n) ==
    [i \in 1..n |-> o[((i - 1) \div 4) + 1][((i - 1) % 4) + 1]]

\* the bytes written by the latest fill_bytes or try_fill_bytes
Written == IF last.op = "try_fill_bytes" THEN last.out[2] ELSE last.out

IsFill == last.op \in {"fill_bytes", "try_fill_bytes"} /\ last.n % 4 = 0

RECURSIVE TrailingZeros(_)
TrailingZeros(r) == IF r % 2 = 1 THEN 0 ELSE 1 + TrailingZeros(r \div 2)

\* the length of the orbit of a register of PeriodBits bits with z trailing
\* zero bits
OrbitSize(z) ==
    IF z >= PeriodBits - 1 THEN 1
    ELSE IF z = PeriodBits - 2 THEN 2
    ELSE Pow2(PeriodBits - 2 - z)

TestArr == <<239, 205, 171, 137, 103, 69, 35, 1>>
TestSeed == Hex64(<<0,1,2,3, 4,5,6,7, 8,9,10,11, 12,13,14,15>>)

(***************************************************************************)
(* Properties.                                                             *)
(***************************************************************************)

\* C1: the register of every generator, seeded, cloned or derived by
\* new_stream, is never 0, whatever the seed (0 included) and whatever calls
\* were made, forward or backward.
C1_NonZeroRegister == \A g \in 1..Len(gens) : gens[g] # Zero64

\* a generator seeded with 0 was stepped backward and a stream derived from it
C1_Witness ==
    /\ last.op = "new_stream"
    /\ last.pre = skip(One64, 0 - 1)
    /\ Len(gens) = 2

\* C2: skip(k) directly followed by skip(-k) on the same generator leaves
\* the register it had before the first skip.
C2_SkipInverts ==
    [][(/\ last.op = "skip"
        /\ last'.op = "skip"
        /\ last'.g = last.g
        /\ last'.n = 0 - last.n)
       => gens'[last.g] = last.pre]_vars

\* skip(-MaxSkip) has brought a generator back from MaxSkip steps ahead of
\* the seed u64::MAX, every product having wrapped
C2_Witness ==
    /\ last.op = "skip"
    /\ last.n = 0 - MaxSkip
    /\ last.pre = skip(MaxU64, MaxSkip)
    /\ last.pre # MaxU64
    /\ gens[last.g] = MaxU64

\* C3: skip(n), n >= 0, leaves the register n calls of next_u32 leave, which
\* is state * MULTIPLIER^n mod 2^64; skip(0) leaves it unchanged.
C3_SkipMatchesSteps ==
    (last.op = "skip" /\ last.n >= 0) =>
        /\ gens[last.g] = StepsAfter(last.pre, last.n)
        /\ gens[last.g] = WrappingMul(last.pre, Power(MULTIPLIER, last.n))
        /\ last.n = 0 => gens[last.g] = last.pre

C3_Witness ==
    /\ last.op = "skip"
    /\ last.n = MaxSkip
    /\ last.pre = MaxU64
    /\ gens[last.g] # last.pre

\* C4, as stated: the output produced right after skip(k), k > 0, is the
\* k-th of k successive next_u32 outputs from the register before the skip.
C4_OutputAfterSkipIsKth ==
    [][(/\ last.op = "skip"
        /\ last.n > 0
        /\ last'.op = "next_u32"
        /\ last'.g = last.g)
       => last'.out = KthOutput(last.pre, last.n)]_vars

\* C4, amended: the output produced right after skip(k), k > 0, is the
\* (k+1)-th of k+1 successive next_u32 outputs from the register before the
\* skip.
C4_OutputAfterSkipIsNext ==
    [][(/\ last.op = "skip"
        /\ last.n > 0
        /\ last'.op = "next_u32"
        /\ last'.g = last.g)
       => last'.out = KthOutput(last.pre, last.n + 1)]_vars

\* next_u32 was called one step after the seed of the byte array of the
\* tests: it returned the second output of that seed, not the first
C4_Witness ==
    /\ last.op = "next_u32"
    /\ last.pre = skip(TestSeed, 1)
    /\ last.out = KthOutput(TestSeed, 2)
    /\ last.out # KthOutput(TestSeed, 1)

\* C5: next_u64 returns the first of two successive next_u32 outputs as the
\* high half and the second as the low half, and leaves the register two
\* steps on.
C5_NextU64Composes ==
    last.op = "next_u64" =>
        \A o \in {Outputs(last.pre, 2)} :
            /\ SubSeq(last.out, 5, 8) = o[1]
            /\ SubSeq(last.out, 1, 4) = o[2]
            /\ Len(last.out) = 8
            /\ gens[last.g] = StepsAfter(last.pre, 2)

C5_Witness ==
    /\ last.op = "next_u64"
    /\ SubSeq(last.out, 5, 8) # SubSeq(last.out, 1, 4)

\* C6, as stated: a buffer of N bytes, N a multiple of 4, receives the
\* little-endian bytes of N/4 successive next_u32 outputs in call order, and
\* the register advances N/4 steps.
C6_FillInCallOrder ==
    IsFill =>
        \A o \in {Outputs(last.pre, last.n \div 4)} :
            /\ Written = CallOrderBytes(o, last.n)
            /\ gens[last.g] = StepsAfter(last.pre, last.n \div 4)

\* C6, amended: the buffer receives the little-endian bytes of N/4
\* successive next_u32 outputs, where within every complete 8-byte chunk the
\* second output of the pair comes first (the chunk is one next_u64 value in
\* little-endian order) and a last 4-byte chunk holds one output; the
\* register advances N/4 steps and try_fill_bytes returns Ok.
C6_FillInChunks ==
    IsFill =>
        \A o \in {Outputs(last.pre, last.n \div 4)} :
            /\ Written = ChunkedBytes(o, last.n)
            /\ gens[last.g] = StepsAfter(last.pre, last.n \div 4)
            /\ last.op = "try_fill_bytes" => last.out[1] = "Ok"

\* 12 bytes were written whose first 8 are not in call order
C6_Witness ==
    /\ last.op = "fill_bytes"
    /\ last.n = 12
    /\ \E o \in {Outputs(last.pre, 3)} : Written # CallOrderBytes(o, 12)

\* C7: new_stream advances the parent two steps and returns a child whose
\* register is seed_from_u64 of the next_u64 output (never 0); skip(-2) then
\* next_u64 on the parent gives that output again; and no call on one
\* generator changes the register of another.
C7_StreamDerivation ==
    [][/\ \A j \in 1..Len(gens) : j # last'.g => gens'[j] = gens[j]
       /\ last'.op = "new_stream" =>
            /\ Len(gens') = Len(gens) + 1
            /\ last'.child = Len(gens')
            /\ last'.pre = gens[last'.g]
            /\ gens'[last'.g] = StepsAfter(last'.pre, 2)
            /\ Len(last'.out) = 8
            /\ gens'[last'.child] =
                 (IF last'.out = Zero64 THEN One64 ELSE last'.out)
            /\ next_u64(skip(gens'[last'.g], 0 - 2)).out = last'.out]_vars

\* the child of a generator seeded with u64::MAX was stepped; the parent
\* stands two steps after its seed
C7_Witness ==
    /\ Len(gens) = 2
    /\ last.op = "next_u32"
    /\ last.g = 2
    /\ gens[1] = skip(MaxU64, 2)
    /\ last.pre = next_u64(MaxU64).out
    /\ gens[2] # last.pre

\* C8: seed_from_u64(s) has register s, or 1 when s = 0; from_seed(b) has
\* the register of seed_from_u64 of the little-endian value of b; no step is
\* applied.
C8_Seeding ==
    /\ last.op = "seed_from_u64" =>
         /\ last.pre # Zero64 => gens[last.g] = last.pre
         /\ last.pre = Zero64 => gens[last.g] = One64
         /\ last.pre = MaxU64 => gens[last.g] = MaxU64
    /\ last.op = "from_seed" =>
         /\ \A i \in 1..8 :
              gens[last.g][i] =
                 (IF \A k \in 1..8 : last.pre[k] = 0
                  THEN (IF i = 1 THEN 1 ELSE 0)
                  ELSE last.pre[i])
         /\ last.pre = TestArr => gens[last.g] = TestSeed

C8_Witness ==
    /\ last.op = "from_seed"
    /\ last.pre = TestArr
    /\ gens[last.g] = TestSeed

\* C9: next_u32 sets the register to s' = s * 0x1000000000000003 mod 2^64
\* and returns the low 32 bits of (s' XOR (s' >> 22)) >> (22 + (s' >> 61));
\* the shift amount lies in 22..29.
C9_StepAndPermutation ==
    last.op = "next_u32" =>
        \A s \in {gens[last.g]} :
            /\ s = TimesMultiplier(last.pre)
            /\ ShiftOf(s) \in 22..29
            /\ ShiftOf(s) = 22 + Bit(s, 61) + 2 * Bit(s, 62) + 4 * Bit(s, 63)
            /\ last.out = PermuteBits(s, ShiftOf(s))

\* an output taken with the largest shift
C9_Witness ==
    /\ last.op = "next_u32"
    /\ ShiftOf(gens[last.g]) = 29
    /\ last.out # <<0, 0, 0, 0>>

\* C10, as stated: from any non-zero register the update visits every
\* non-zero residue before the register returns to a value it has held.
C10_FullPeriod == Returned => visited = 1..(Modulus - 1)

\* C10, amended: from any non-zero register the update first returns to the
\* starting value, and until then visits only the residues with as many
\* trailing zero bits as the start: 2^(w-2) of them from an odd start, and
\* 2^(w-2-z) from a start with z trailing zero bits (2 when z = w-2, 1 when
\* z = w-1).
C10_OrbitOfStart ==
    Returned =>
        /\ reg = start
        /\ \A v \in visited : TrailingZeros(v) = TrailingZeros(start)
        /\ Cardinality(visited) = OrbitSize(TrailingZeros(start))

\* the orbit of 1 is closed
C10_Witness ==
    /\ Returned
    /\ start = 1
    /\ Cardinality(visited) = Pow2(PeriodBits - 2)

====
